---- MODULE Spec2Model ----
(***************************************************************************)
(* yek: repository serializer.  Model of src/src/lib.rs: configuration     *)
(* merging, ignore/priority resolution, binary detection, git recency      *)
(* bonus, candidate collection, and the chunk assembler of serialize_repo  *)
(* with its output sink (write_chunk).                                     *)
(*                                                                         *)
(* Representation.  A file content is a sequence of bytes, each byte a     *)
(* one-element string name.  A relative path is a sequence of atoms        *)
(* ("src/", "b", ".txt"); a regular expression is the record of its        *)
(* anchors and the atoms it must find contiguously in the path.            *)
(***************************************************************************)
EXTENDS Integers, Sequences, FiniteSets, TLC

VARIABLES
    \* run parameters and environment (fixed during a run)
    max_size, count_tokens, stream, config, gitignore, git_log, now, walk, fs,
    \* the parsed yek.toml main() found, whether the root path canonicalizes,
    \* the state of directories outside the tree, and the write_chunk call
    \* (counted from 0) that meets an I/O error, if any
    config_file, canonical_ok, dir_state, fail_at,
    \* serialize_repo locals
    pc, base_path, final_config, commit_times, two_weeks_ago, output_dir,
    entry_idx, files, file_idx,
    current_chunk, current_chunk_size, chunk_index,
    split_rel, remaining, part, result,
    \* the sink: standard output, the chunk files of the directory, and the
    \* history of write_chunk calls
    stdout, dir, written,
    \* the paths is_text_file has called File::open on
    opened

vars == <<max_size, count_tokens, stream, config, gitignore, git_log, now, walk, fs,
          config_file, canonical_ok, dir_state, fail_at,
          pc, base_path, final_config, commit_times, two_weeks_ago, output_dir,
          entry_idx, files, file_idx,
          current_chunk, current_chunk_size, chunk_index,
          split_rel, remaining, part, result,
          stdout, dir, written, opened>>

\* Option<T>: None, or Some(x)
None == <<>>

Some(x) == <<x>>

IsSome(o) == o # <<>>

Unwrap(o) == o[1]

Min(a, b) == IF a <= b THEN a ELSE b

\* ------------------------------------------------------------------
\* Bounds of the model
\* ------------------------------------------------------------------
\* max_size ranges over 0..MaxSize
MaxSize == 4
\* the split loop of an oversized file is followed for at most MaxParts parts
MaxParts == 7
\* a user configuration has at most MaxRules priority rules
MaxRules == 3

\* ------------------------------------------------------------------
\* Bytes and text
\* ------------------------------------------------------------------
\* 0xC3 0xA9 is the two-byte UTF-8 encoding of one character; "A9" is a
\* continuation byte, "FF" never occurs in UTF-8, "NUL" is the zero byte.
Whitespace == {" ", "\n"}

ContinuationBytes == {"A9"}

InvalidBytes == {"FF"}

\* str::is_char_boundary(i), i a byte offset 0..len
is_char_boundary(text, i) ==
    \/ i = 0
    \/ i = Len(text)
    \/ (i < Len(text) /\ text[i + 1] \notin ContinuationBytes)

\* String::from_utf8 succeeds
is_utf8(bytes) ==
    /\ \A i \in 1..Len(bytes) : bytes[i] \notin InvalidBytes
    /\ \A i \in 1..Len(bytes) :
          (bytes[i] = "C3") <=> (i < Len(bytes) /\ bytes[i + 1] \in ContinuationBytes)

\* str::trim_start
RECURSIVE trim_start(_)
trim_start(text) ==
    IF text # <<>> /\ Head(text) \in Whitespace THEN trim_start(Tail(text)) ELSE text

\* the first word of a text that starts with a non-whitespace byte
RECURSIVE FirstWord(_)
FirstWord(text) ==
    IF text = <<>> \/ Head(text) \in Whitespace THEN <<>>
    ELSE <<Head(text)>> \o FirstWord(Tail(text))

\* str::split_whitespace, collected
RECURSIVE split_whitespace(_)
split_whitespace(text) ==
    LET t == trim_start(text) IN
    IF t = <<>> THEN <<>>
    ELSE LET w == FirstWord(t) IN
         <<w>> \o split_whitespace(SubSeq(t, Len(w) + 1, Len(t)))

\* str::split_at(mid): <<chunk, rest>>
split_at(text, mid) == <<SubSeq(text, 1, mid), SubSeq(text, mid + 1, Len(text))>>

count_size(text, tokens) ==
    IF tokens THEN Len(split_whitespace(text)) ELSE Len(text)

\* ------------------------------------------------------------------
\* Regular expressions over relative paths
\* ------------------------------------------------------------------
\* Atoms that are a dot followed by a name (file extensions, dot files).
\* BINARY_FILE_EXTENSIONS, src/src/lib.rs lines 62-72
BINARY_FILE_EXTENSIONS ==
    {".jpg", ".pdf", ".mid", ".blend", ".p12", ".rco", ".tgz", ".jpeg", ".mp4", ".midi", ".crt",
     ".p7b", ".ovl", ".bz2", ".png", ".webm", ".aac", ".key", ".gbr", ".mo", ".xz", ".gif", ".mov",
     ".flac", ".pem", ".pcb", ".nib", ".dat", ".ico", ".mp3", ".bmp", ".der", ".icns", ".xap",
     ".lib", ".webp", ".wav", ".psd", ".png2", ".xdf", ".psf", ".jar", ".ttf", ".exe", ".ai",
     ".jp2", ".zip", ".pak", ".vhd", ".woff", ".dll", ".eps", ".swc", ".rar", ".img3", ".gho",
     ".woff2", ".bin", ".raw", ".mso", ".7z", ".img4", ".efi", ".eot", ".iso", ".tif", ".class",
     ".gz", ".msi", ".ocx", ".sys", ".img", ".tiff", ".apk", ".tar", ".cab", ".scr", ".so", ".dmg",
     ".3ds", ".com", ".elf", ".o", ".max", ".obj", ".drv", ".rom", ".a", ".vhdx", ".fbx", ".bpl",
     ".cpl"}

DotAtoms == BINARY_FILE_EXTENSIONS \cup
            {".txt", ".md", ".log", ".rs", ".PNG", ".env", ".local", ".lock", ".toml"}

DirAtoms == {"src/", "docs/", "node_modules/", "target/"}

\* str::to_lowercase on the extensions the model uses
to_lowercase(atom) == IF atom = ".PNG" THEN ".png" ELSE atom

\* A regular expression source: valid (Regex::new succeeds), anchored at the
\* start (^), the atoms to find, anchored at the end ($), and opt for the
\* optional group (\..+)? before the end anchor.
Re(s, a, e) == [valid |-> TRUE, start |-> s, atoms |-> a, end |-> e, opt |-> FALSE]

InvalidRe == [valid |-> FALSE, start |-> FALSE, atoms |-> <<>>, end |-> FALSE, opt |-> FALSE]

Prefix(a) == Re(TRUE, <<a>>, FALSE)

Contains(a) == Re(FALSE, a, FALSE)

Suffix(a) == Re(FALSE, <<a>>, TRUE)

\* Regex::new(pat).is_ok()
IsValidRegex(pat) == pat.valid

\* Regex::is_match
is_match(pat, rel_str) ==
    LET n == Len(pat.atoms) IN
    \E k \in 0..(Len(rel_str) - n) :
       /\ pat.start => k = 0
       /\ \A i \in 1..n : rel_str[k + i] = pat.atoms[i]
       /\ pat.end =>
             \/ k + n = Len(rel_str)
             \/ (pat.opt /\ k + n < Len(rel_str) /\ rel_str[k + n + 1] \in DotAtoms)

\* ------------------------------------------------------------------
\* Defaults and configuration merging
\* ------------------------------------------------------------------
default_priority_list == << [score |-> 50, patterns |-> <<Prefix("src/")>>] >>

default_ignore_patterns ==
    << Prefix(".git/"), Prefix(".next/"), Prefix("node_modules/"), Prefix("vendor/"),
       Prefix("dist/"), Prefix("build/"), Prefix("out/"), Prefix("target/"),
       Prefix("bin/"), Prefix("obj/"), Prefix(".idea/"), Prefix(".vscode/"),
       Prefix(".vs/"), Prefix(".settings/"), Prefix(".gradle/"), Prefix(".mvn/"),
       Prefix(".pytest_cache/"), Prefix("__pycache__/"), Prefix(".sass-cache/"),
       Prefix(".vercel/"), Prefix(".turbo/"), Prefix("coverage/"), Prefix("test-results/"),
       Contains(<<".gitignore">>), Contains(<<"pnpm-lock", ".yaml">>),
       Contains(<<"yek", ".toml">>), Contains(<<"package-lock", ".json">>),
       Contains(<<"yarn", ".lock">>), Contains(<<"Cargo", ".lock">>),
       Contains(<<"Gemfile", ".lock">>), Contains(<<"composer", ".lock">>),
       Contains(<<"mix", ".lock">>), Contains(<<"poetry", ".lock">>),
       Contains(<<"Pipfile", ".lock">>), Contains(<<"packages", ".lock", ".json">>),
       Contains(<<"paket", ".lock">>),
       Suffix(".pyc"), Suffix(".pyo"), Suffix(".pyd"), Suffix(".class"), Suffix(".o"),
       Suffix(".obj"), Suffix(".dll"), Suffix(".exe"), Suffix(".so"), Suffix(".dylib"),
       Suffix(".log"), Suffix(".tmp"), Suffix(".temp"), Suffix(".swp"), Suffix(".swo"),
       Suffix(".DS_Store"), Suffix("Thumbs.db"),
       [valid |-> TRUE, start |-> FALSE, atoms |-> <<".env">>, end |-> TRUE, opt |-> TRUE],
       Suffix(".bak"), Suffix("~") >>

\* slice::sort_by with a comparison of integer keys, ascending.  The sort
\* is stable: an element is inserted behind the elements of an equal key
\* (before them when before_equal, which slice::sort_by never does).
InsertByKey(sorted, x, before_equal) ==
    LET before == {i \in 1..Len(sorted) :
                      \/ x[1] < sorted[i][1]
                      \/ (before_equal /\ x[1] = sorted[i][1])}
        pos == IF before = {} THEN Len(sorted) + 1
               ELSE CHOOSE i \in before : \A j \in before : i <= j
    IN SubSeq(sorted, 1, pos - 1) \o <<x>> \o SubSeq(sorted, pos, Len(sorted))

SortByKey(s, keys, before_equal) ==
    LET F[i \in 0..Len(s)] ==
            IF i = 0 THEN <<>>
            ELSE InsertByKey(F[i - 1], <<keys[i], s[i]>>, before_equal)
    IN [i \in 1..Len(s) |-> F[Len(s)][i][2]]

\* variant: every rule with patterns becomes a tier of its own
MergeRuleAppending(merged_priority, user_rule) ==
    IF user_rule.patterns = <<>> THEN merged_priority
    ELSE Append(merged_priority,
                [score |-> user_rule.score,
                 patterns |-> SelectSeq(user_rule.patterns, IsValidRegex)])

\* one iteration of "for user_rule in user_cfg.priority_rules"
MergeRule(merged_priority, user_rule) ==
    IF user_rule.patterns = <<>> THEN merged_priority
    ELSE LET same == {i \in 1..Len(merged_priority) :
                         merged_priority[i].score = user_rule.score}
             new_regexes == SelectSeq(user_rule.patterns, IsValidRegex)
         IN IF same # {}
            THEN LET idx == CHOOSE i \in same : \A j \in same : i <= j
                 IN [merged_priority EXCEPT ![idx].patterns = @ \o new_regexes]
            ELSE Append(merged_priority,
                        [score |-> user_rule.score, patterns |-> new_regexes])

MergeRules(rules) ==
    LET F[i \in 0..Len(rules)] ==
            IF i = 0 THEN default_priority_list ELSE MergeRule(F[i - 1], rules[i])
    IN F[Len(rules)]

\* variant: the tiers stay in merge order
SortTiersUnsorted(merged) == merged

\* merged_priority.sort_by(|a, b| b.score.cmp(&a.score))
SortTiers(merged) ==
    SortByKey(merged, [i \in 1..Len(merged) |-> 0 - merged[i].score], FALSE)

\* variant: the user's ignore patterns stand in for the defaults
build_final_config_own_ignores(cfg) ==
    IF cfg = None
    THEN [ignore_patterns |-> default_ignore_patterns,
          priority_list |-> default_priority_list]
    ELSE [ignore_patterns |-> SelectSeq(Unwrap(cfg).ignore_patterns, IsValidRegex),
          priority_list |-> SortTiers(MergeRules(Unwrap(cfg).priority_rules))]

\* lines 178-224
build_final_config(cfg) ==
    IF cfg = None
    THEN [ignore_patterns |-> default_ignore_patterns,
          priority_list |-> default_priority_list]
    ELSE [ignore_patterns |->
              default_ignore_patterns
                 \o SelectSeq(Unwrap(cfg).ignore_patterns, IsValidRegex),
          priority_list |-> SortTiers(MergeRules(Unwrap(cfg).priority_rules))]

\* the state of a directory path outside the tree: "absent" (can be
\* created), "dir", "file" (exists, no directory), "denied" (absent and
\* cannot be created)
DirState(d) == IF d \in DOMAIN dir_state THEN dir_state[d] ELSE "absent"

\* std::fs::create_dir_all(d).is_ok()
create_dir_all(d) == DirState(d) \in {"absent", "dir"}

\* one error per pattern that is no regular expression
PatternErrors(patterns, field) ==
    [i \in 1..Len(SelectSeq(patterns, LAMBDA pat : ~IsValidRegex(pat))) |-> field]

\* lines 480-532: the fields of the errors found
validate_config(cfg) ==
    LET R[i \in 0..Len(cfg.priority_rules)] ==
            IF i = 0 THEN <<>>
            ELSE LET rule == cfg.priority_rules[i]
                 IN R[i - 1]
                    \o (IF rule.score < 0 \/ rule.score > 1000
                        THEN <<"priority_rules">> ELSE <<>>)
                    \o PatternErrors(rule.patterns, "priority_rules")
    IN PatternErrors(cfg.ignore_patterns, "ignore_patterns")
       \o R[Len(cfg.priority_rules)]
       \o (IF IsSome(cfg.output_dir) /\ ~create_dir_all(Unwrap(cfg.output_dir))
           THEN <<"output_dir">> ELSE <<>>)

\* variant: a configuration is dropped for an unusable directory only
load_config_file_lenient(file) ==
    IF file = None THEN None
    ELSE IF \E i \in 1..Len(validate_config(Unwrap(file))) :
               validate_config(Unwrap(file))[i] = "output_dir"
    THEN None
    ELSE file

\* lines 809-839: file is None when yek.toml is missing, unreadable or no
\* TOML of the expected shape, otherwise the parsed configuration
load_config_file(file) ==
    IF file = None THEN None
    ELSE IF validate_config(Unwrap(file)) # <<>> THEN None
    ELSE file

\* ------------------------------------------------------------------
\* File classification
\* ------------------------------------------------------------------
\* Path::extension, with its dot
extension(path) ==
    IF /\ Len(path) >= 2
       /\ path[Len(path)] \in DotAtoms
       /\ path[Len(path) - 1] \notin DirAtoms
    THEN Some(path[Len(path)]) ELSE None

\* the size of the buffer is_text_file reads into
TextProbeBytes == 4096

\* lines 229-240: the extension, lowercased and with its dot, is one of
\* the built-in or of the caller's extensions
binary_by_extension(file_path, user_binary_extensions) ==
    LET ext == extension(file_path)
        dot_ext == to_lowercase(Unwrap(ext))
    IN IsSome(ext) /\ (\/ dot_ext \in BINARY_FILE_EXTENSIONS
                      \/ \E i \in 1..Len(user_binary_extensions) :
                            user_binary_extensions[i] = dot_ext)

\* variant: the whole file is searched for a zero byte
is_text_file_whole_file(file_path, user_binary_extensions, file) ==
    IF binary_by_extension(file_path, user_binary_extensions) THEN FALSE
    ELSE IF file.io # "ok" THEN FALSE
    ELSE \A i \in 1..Len(file.bytes) : file.bytes[i] # "NUL"

is_text_file(file_path, user_binary_extensions, file) ==
    IF binary_by_extension(file_path, user_binary_extensions) THEN FALSE
    ELSE IF file.io # "ok" THEN FALSE
    ELSE LET read_bytes == Min(TextProbeBytes, Len(file.bytes))
         IN \A i \in 1..read_bytes : file.bytes[i] # "NUL"

\* variant: the tiers are consulted before the ignore matchers
get_file_priority_tiers_first(rel_str, ignore_pats, prio_list) ==
    LET hits == {i \in 1..Len(prio_list) :
                    \E j \in 1..Len(prio_list[i].patterns) :
                       is_match(prio_list[i].patterns[j], rel_str)}
    IN IF hits # {}
       THEN prio_list[CHOOSE i \in hits : \A j \in hits : i <= j].score
       ELSE IF \E i \in 1..Len(ignore_pats) : is_match(ignore_pats[i], rel_str)
            THEN -1 ELSE 40

\* lines 388-406
get_file_priority(rel_str, ignore_pats, prio_list) ==
    IF \E i \in 1..Len(ignore_pats) : is_match(ignore_pats[i], rel_str)
    THEN -1
    ELSE LET hits == {i \in 1..Len(prio_list) :
                         \E j \in 1..Len(prio_list[i].patterns) :
                            is_match(prio_list[i].patterns[j], rel_str)}
         IN IF hits # {}
            THEN prio_list[CHOOSE i \in hits : \A j \in hits : i <= j].score
            ELSE 40

\* get_recent_commit_times: None without git, otherwise the map from each
\* path of the log to the timestamp of the first (newest) block naming it.
\* git_log is None or the sequence of blocks [ts, names], newest first.
get_recent_commit_times(git) ==
    IF git = None THEN None
    ELSE LET log == Unwrap(git)
             named == UNION {{log[i].names[j] : j \in 1..Len(log[i].names)} :
                                i \in 1..Len(log)}
         IN Some([p \in named |->
                log[CHOOSE i \in 1..Len(log) :
                       /\ \E j \in 1..Len(log[i].names) : log[i].names[j] = p
                       /\ \A k \in 1..(i - 1) :
                             \A j \in 1..Len(log[k].names) : log[k].names[j] # p].ts])

\* 14 * 24 * 60 * 60 seconds
RecentWindowSecs == 14 * 24 * 60 * 60

\* SystemTime::now().checked_sub(14 days), seconds since the epoch, or 0
cutoff(t) == IF t >= RecentWindowSecs THEN t - RecentWindowSecs ELSE 0

\* variant: a commit exactly at the cutoff is not recent
is_recent_strict(commit_ts, cut) == commit_ts > cut

\* line 661
is_recent(commit_ts, cut) == commit_ts >= cut

RecentBonus == 50

\* lines 655-666: the final priority of a candidate
final_prio(priority, times_map, rel_str, cut) ==
    IF /\ IsSome(times_map)
       /\ rel_str \in DOMAIN Unwrap(times_map)
       /\ is_recent(Unwrap(times_map)[rel_str], cut)
    THEN priority + RecentBonus
    ELSE priority

\* variant: bytes that are not UTF-8 are read all the same
read_to_string_lossy(file) ==
    IF file.io = "ok" THEN Some(file.bytes) ELSE None

\* std::fs::read_to_string: Ok(content) or None
read_to_string(file) ==
    IF file.io = "ok" /\ is_utf8(file.bytes) THEN Some(file.bytes) ELSE None

\* ------------------------------------------------------------------
\* The gitignore matcher (external collaborator)
\* ------------------------------------------------------------------
\* gitignore is None (no .gitignore at the root) or Some(globs), a glob being
\* [negated, pat].  Gitignore::matched: the last glob matching the path
\* decides; a negated glob whitelists.
gitignore_is_ignore(gi, rel_path) ==
    IF gi = None THEN FALSE
    ELSE LET globs == Unwrap(gi)
             hits == {i \in 1..Len(globs) : is_match(globs[i].pat, rel_path)}
         IN /\ hits # {}
            /\ ~globs[CHOOSE i \in hits : \A j \in hits : j <= i].negated

\* ------------------------------------------------------------------
\* The sink: write_chunk
\* ------------------------------------------------------------------
\* display path of a part: format!("{}:part{}", rel_str, part)
part_label(rel_str, n) == rel_str \o <<":part", ToString(n)>>

\* one record of a chunk: marker, path, newline, content, blank line
record_data(path, content) == <<">>>> ">> \o path \o <<"\n">> \o content \o <<"\n", "\n">>

chunk_data(chunk_files) ==
    LET F[i \in 0..Len(chunk_files)] ==
            IF i = 0 THEN <<>>
            ELSE F[i - 1] \o record_data(chunk_files[i][1], chunk_files[i][2])
    IN F[Len(chunk_files)]

\* write_chunk(files, index, output_dir, stream, count_tokens): the new
\* <<stdout, dir, written>>
write_chunk(chunk_files, index, kind) ==
    LET data == chunk_data(chunk_files)
        call == [files |-> chunk_files, index |-> index, kind |-> kind]
    IN IF stream
       THEN <<stdout \o data, dir, Append(written, call)>>
       ELSE IF IsSome(output_dir)
            THEN <<stdout, (index :> data) @@ dir, Append(written, call)>>
            ELSE <<stdout, dir, Append(written, call)>>

\* ------------------------------------------------------------------
\* The derived output directory
\* ------------------------------------------------------------------
HexDigits == <<"0", "1", "2", "3", "4", "5", "6", "7", "8", "9",
               "a", "b", "c", "d", "e", "f">>

\* format!("{:x}", n): no padding, no truncation
RECURSIVE to_hex(_)
to_hex(n) ==
    IF n < 16 THEN <<HexDigits[n + 1]>>
    ELSE to_hex(n \div 16) \o <<HexDigits[(n % 16) + 1]>>

\* fallback_timestamp: the clock in milliseconds since the epoch, in hex
fallback_timestamp(t) == to_hex(t * 1000)

\* every atom of a path or a content has a number
Alphabet == <<"a", "b", "c", " ", "\n", "NUL", "C3", "A9", "FF", "r", "test", "img",
              "src/", "docs/", ".txt", ".md", ".log", ".PNG", ":", "x", ".xyz", ".XYZ">>

Code(atom) ==
    IF \E i \in 1..Len(Alphabet) : Alphabet[i] = atom
    THEN CHOOSE i \in 1..Len(Alphabet) : Alphabet[i] = atom
    ELSE 0

\* the width of a SHA-256 digest in hexadecimal characters
DigestHexLen == 64

\* the number of characters of the digest that get_repo_checksum keeps
ChecksumLen == 8

\* format!("{:x}", hasher.finalize()): a stand-in for SHA-256, a function of
\* the hashed bytes alone, rendered as 64 hexadecimal characters
sha256_hex(data) ==
    LET H[i \in 0..Len(data)] ==
            IF i = 0 THEN 7 ELSE (H[i - 1] * 31 + Code(data[i])) % 16777216
        digits == to_hex(H[Len(data)] + 268435456)
    IN [i \in 1..DigestHexLen |-> IF i <= Len(digits) THEN digits[i] ELSE "0"]

\* the paths of the tree in the order lines.sort() gives them
PathOrder == << <<"a", ".txt">>, <<"docs/", "r", ".md">>, <<"img", ".PNG">>,
               <<"src/", "b", ".txt">>, <<"test", ".log">> >>

\* git ls-files -c: None when git fails, otherwise the tracked paths, sorted
git_ls_files(git) ==
    IF git = None THEN None
    ELSE LET log == Unwrap(git)
         IN Some(SelectSeq(PathOrder,
                           LAMBDA p : \E i \in 1..Len(log) :
                                         \E j \in 1..Len(log[i].names) : log[i].names[j] = p))

\* variant: the digest is cut after seven characters
get_repo_checksum_short(chunk_size, git, tree, t) ==
    IF git_ls_files(git) = None THEN fallback_timestamp(t)
    ELSE LET lines == Unwrap(git_ls_files(git))
             W[i \in 0..Len(lines)] ==
                 IF i = 0 THEN <<>>
                 ELSE W[i - 1] \o lines[i] \o <<":">> \o tree[lines[i]].bytes \o <<"\n">>
             hashed == IF chunk_size # 0 THEN W[Len(lines)] \o to_hex(chunk_size)
                       ELSE W[Len(lines)]
         IN SubSeq(sha256_hex(hashed), 1, ChecksumLen - 1)

\* lines 294-335: one line "<file>:<hash of its content>" per tracked file,
\* hashed; the first 8 characters of the digest; the clock when git fails
get_repo_checksum(chunk_size, git, tree, t) ==
    IF git_ls_files(git) = None THEN fallback_timestamp(t)
    ELSE LET lines == Unwrap(git_ls_files(git))
             W[i \in 0..Len(lines)] ==
                 IF i = 0 THEN <<>>
                 ELSE W[i - 1] \o lines[i] \o <<":">> \o tree[lines[i]].bytes \o <<"\n">>
             hashed == IF chunk_size # 0 THEN W[Len(lines)] \o to_hex(chunk_size)
                       ELSE W[Len(lines)]
         IN SubSeq(sha256_hex(hashed), 1, ChecksumLen)

\* std::env::temp_dir().join(format!("yek-{}", checksum))
temp_dir_join(checksum) == <<"tmp/", "yek-">> \o checksum

\* lines 582-610: the output directory of a run
resolve_output_dir(is_stream, dir_arg, cfg) ==
    IF is_stream THEN None
    ELSE IF IsSome(dir_arg) THEN dir_arg
    ELSE IF IsSome(cfg) /\ IsSome(Unwrap(cfg).output_dir) THEN Unwrap(cfg).output_dir
    ELSE Some(temp_dir_join(get_repo_checksum(0, git_log, fs, now)))

\* ------------------------------------------------------------------
\* The chunk assembler's decisions
\* ------------------------------------------------------------------
\* variant: a sort that puts a candidate before its equals
sort_files_ties_reversed(entries) ==
    SortByKey(entries, [i \in 1..Len(entries) |-> entries[i].priority], TRUE)

\* files.sort_by(|a, b| a.priority.cmp(&b.priority))
sort_files(entries) ==
    SortByKey(entries, [i \in 1..Len(entries) |-> entries[i].priority], FALSE)

\* line 692
is_oversized(size, max) == size > max

\* variant: the size of the incoming file is left out of the test
needs_flush_ignoring_file(chunk_size, size, max, chunk) ==
    chunk_size > max /\ chunk # <<>>

\* variant: a file that fills the chunk exactly causes a flush as well
needs_flush_at_limit(chunk_size, size, max, chunk) ==
    chunk_size + size >= max /\ chunk # <<>>

\* line 739
needs_flush(chunk_size, size, max, chunk) ==
    chunk_size + size > max /\ chunk # <<>>

\* variant: the file that caused a flush is not put in the new chunk
next_chunk_dropping(chunk, flush, entry) ==
    IF flush THEN <<>> ELSE Append(chunk, entry)

\* lines 750 and 757: the chunk after a normal file was handled
next_chunk(chunk, flush, entry) ==
    IF flush THEN <<entry>> ELSE Append(chunk, entry)

\* lines 700-708: bytes of the first max words, one more per word
token_chars(text, max) ==
    LET words == split_whitespace(text)
        F[i \in 0..Len(words)] ==
            IF i = 0 THEN 0
            ELSE IF i > max THEN F[i - 1]
            ELSE F[i - 1] + Len(words[i]) + 1
    IN F[Len(words)]

\* lines 699-716: the byte length asked of split_at in one iteration
split_chunk_size(text, max, tokens) ==
    LET chunk_size == IF tokens THEN token_chars(text, max) ELSE max
    IN IF chunk_size = 0 THEN Min(max, Len(text)) ELSE chunk_size

\* ------------------------------------------------------------------
\* Inputs of a run
\* ------------------------------------------------------------------
PathA == <<"a", ".txt">>

PathSrcDir == <<"src/">>

PathSrcB == <<"src/", "b", ".txt">>

PathDocs == <<"docs/", "r", ".md">>

PathLog == <<"test", ".log">>

PathImg == <<"img", ".PNG">>

\* the order in which WalkDir yields the entries of the tree
Walks == { <<PathSrcDir, PathSrcB, PathA, PathDocs, PathLog, PathImg>>,
           <<PathDocs, PathImg, PathA, PathLog, PathSrcDir, PathSrcB>> }

TextFile(bytes) == [is_file |-> TRUE, io |-> "ok", bytes |-> bytes]

Directory == [is_file |-> FALSE, io |-> "ok", bytes |-> <<>>]

Unreadable == [is_file |-> TRUE, io |-> "denied", bytes |-> <<"a">>]

\* what each path of the tree may hold
Holdings(path) ==
    CASE path = PathSrcDir -> {Directory}
      [] path = PathSrcB -> {TextFile(<<"a">>), TextFile(<<"a", " ", "b">>),
                              TextFile(<<" ", " ", "a", "b", " ", "c">>),
                              TextFile(<<"C3", "A9", "a">>)}
      [] path = PathA -> {TextFile(<<>>), TextFile(<<"a">>), TextFile(<<"a", " ", "b">>),
                           TextFile(<<"a", "b", "\n", "c">>)}
      [] path = PathDocs -> {TextFile(<<"a", " ", "b">>), TextFile(<<"FF">>),
                              TextFile(<<"a", "NUL">>), Unreadable}
      [] path = PathLog -> {TextFile(<<"a">>)}
      [] path = PathImg -> {TextFile(<<"a">>)}

AllPaths == {PathA, PathSrcDir, PathSrcB, PathDocs, PathLog, PathImg}

UserConfig(ign, rules, exts, out) ==
    [ignore_patterns |-> ign, priority_rules |-> rules,
     binary_extensions |-> exts, output_dir |-> out]

Rule(score, pats) == [score |-> score, patterns |-> pats]

MatchAll == Re(FALSE, <<>>, FALSE)

\* configurations load_config_file accepts
Configs ==
    { None,
      Some(UserConfig(<<Prefix("docs/")>>,
                      <<Rule(100, <<Suffix(".md"), Suffix(".log")>>), Rule(10, <<MatchAll>>)>>,
                      <<>>, None)),
      Some(UserConfig(<<>>,
                      <<Rule(10, <<MatchAll>>), Rule(50, <<Suffix(".txt")>>),
                        Rule(90, <<Prefix("docs/")>>)>>,
                      <<".md">>, Some(<<"out-cfg">>))) }

NowLate == RecentWindowSecs + 1000

\* <<now, git log>>: no repository, and logs naming a.txt exactly at the
\* cutoff, src/b.txt one second before it, docs/r.md not at all or now
GitStates ==
    { <<NowLate, None>>,
      <<NowLate, Some(<< [ts |-> 1000, names |-> <<PathA, PathLog>>],
                         [ts |-> 999, names |-> <<PathSrcB, PathA>>] >>)>>,
      <<NowLate, Some(<< [ts |-> NowLate, names |-> <<PathDocs, PathSrcB>>],
                         [ts |-> 5, names |-> <<PathA, PathSrcB>>] >>)>>,
      <<5, Some(<< [ts |-> 0, names |-> <<PathA>>] >>)>> }

Gitignores ==
    { None,
      Some(<< [negated |-> FALSE, pat |-> Suffix(".md")] >>),
      Some(<< [negated |-> FALSE, pat |-> Suffix(".txt")],
              [negated |-> TRUE, pat |-> Prefix("src/")] >>) }

\* <<stream, output directory argument>>
OutputModes == { <<TRUE, None>>, <<FALSE, None>>, <<FALSE, Some(<<"out">>)>> }

\* ------------------------------------------------------------------
\* serialize_repo
\* ------------------------------------------------------------------
\* the file system: one holding per path
Trees ==
    {(PathSrcDir :> Directory) @@ (PathLog :> TextFile(<<"a">>))
        @@ (PathImg :> TextFile(<<"a">>))
        @@ (PathSrcB :> hb) @@ (PathA :> ha) @@ (PathDocs :> hd) :
        hb \in Holdings(PathSrcB), ha \in Holdings(PathA), hd \in Holdings(PathDocs)}

\* the tree that has a small text file at every path
PlainTree == [p \in AllPaths |-> IF p = PathSrcDir THEN Directory ELSE TextFile(<<"a">>)]

Run(max, tokens, mode, cfg, gi, git, w, tree) ==
    [max_size |-> max, count_tokens |-> tokens, stream |-> mode[1],
     output_dir_arg |-> mode[2], config |-> cfg, gitignore |-> gi,
     now |-> git[1], git_log |-> git[2], walk |-> w, fs |-> tree,
     entry |-> "start", config_file |-> None, canonical_ok |-> TRUE,
     dir_state |-> <<>>, fail_at |-> None]

\* runs that vary the rules, the commit log and the ignore file over a plain tree
ClassifyRuns ==
    {Run(max, FALSE, <<FALSE, None>>, cfg, gi, git, w, PlainTree) :
        max \in {1, MaxSize}, cfg \in Configs, gi \in Gitignores,
        git \in GitStates, w \in Walks}

\* runs that vary the contents, the size limit, the size mode and the sink
AssembleRuns ==
    {Run(max, tokens, mode, None, None, <<NowLate, None>>, w, tree) :
        max \in 0..MaxSize, tokens \in BOOLEAN, mode \in OutputModes,
        w \in Walks, tree \in Trees}

Runs == ClassifyRuns \cup AssembleRuns

\* the state in which run r begins: at serialize_repo, or at main()'s call
\* of load_config_file
InitRun(r) ==
    /\ max_size = r.max_size
    /\ count_tokens = r.count_tokens
    /\ stream = r.stream
    /\ output_dir = r.output_dir_arg
    /\ config = r.config
    /\ gitignore = r.gitignore
    /\ now = r.now
    /\ git_log = r.git_log
    /\ walk = r.walk
    /\ fs = r.fs
    /\ config_file = r.config_file
    /\ canonical_ok = r.canonical_ok
    /\ dir_state = r.dir_state
    /\ fail_at = r.fail_at
    /\ pc = r.entry
    /\ base_path = None
    /\ final_config = None
    /\ commit_times = None
    /\ two_weeks_ago = 0
    /\ entry_idx = 1
    /\ files = <<>>
    /\ file_idx = 1
    /\ current_chunk = <<>>
    /\ current_chunk_size = 0
    /\ chunk_index = 0
    /\ split_rel = <<>>
    /\ remaining = <<>>
    /\ part = 0
    /\ result = <<"running">>
    /\ stdout = <<>>
    /\ dir = <<>>
    /\ written = <<>>
    /\ opened = {}

Init == \E r \in Runs : InitRun(r)

inputs == <<max_size, count_tokens, stream, config, gitignore, git_log, now, walk, fs,
            config_file, canonical_ok, dir_state, fail_at>>

sink == <<stdout, dir, written>>

\* main(): find_config_file(..).and_then(|p| load_config_file(&p))
LoadConfigFile ==
    /\ pc = "load"
    /\ config' = load_config_file(config_file)
    /\ pc' = "start"
    /\ UNCHANGED <<max_size, count_tokens, stream, gitignore, git_log, now, walk, fs,
                   config_file, canonical_ok, dir_state, fail_at,
                   base_path, final_config, commit_times, two_weeks_ago, output_dir,
                   entry_idx, files, file_idx, current_chunk, current_chunk_size,
                   chunk_index, split_rel, remaining, part, result, sink, opened>>

\* lines 553-556: canonicalize, or "." when that fails
resolve_base_path(ok) == IF ok THEN Some(<<"/", "root">>) ELSE Some(<<".">>)

\* lines 553-610: canonicalize, build the matcher and the rule set, read the
\* commit times, resolve and create the output directory
Start ==
    /\ pc = "start"
    /\ base_path' = resolve_base_path(canonical_ok)
    /\ final_config' = Some(build_final_config(config))
    /\ commit_times' = get_recent_commit_times(git_log)
    /\ two_weeks_ago' = cutoff(now)
    /\ LET d == resolve_output_dir(stream, output_dir, config)
       IN IF IsSome(d) /\ ~create_dir_all(Unwrap(d))
          THEN /\ pc' = "done"
               /\ result' = <<"Err", "create_dir_all">>
               /\ UNCHANGED output_dir
          ELSE /\ pc' = "collect"
               /\ output_dir' = d
               /\ UNCHANGED result
    /\ UNCHANGED <<inputs, entry_idx, files, file_idx, current_chunk, current_chunk_size,
                   chunk_index, split_rel, remaining, part, sink, opened>>

\* variant: the .gitignore matcher is not consulted
candidate_without_gitignore(path) ==
    LET cfg == Unwrap(final_config)
        priority == get_file_priority(path, cfg.ignore_patterns, cfg.priority_list)
        binary_extensions ==
            IF IsSome(config) THEN Unwrap(config).binary_extensions ELSE <<>>
    IN IF ~fs[path].is_file THEN None
       ELSE IF priority < 0 THEN None
       ELSE IF ~is_text_file(path, binary_extensions, fs[path]) THEN None
       ELSE Some([path |-> path,
                  priority |-> final_prio(priority, commit_times, path, two_weeks_ago)])

\* the candidate an entry of the walk yields: None (skipped) or Some(FileEntry)
candidate(path) ==
    LET cfg == Unwrap(final_config)
        priority == get_file_priority(path, cfg.ignore_patterns, cfg.priority_list)
        binary_extensions ==
            IF IsSome(config) THEN Unwrap(config).binary_extensions ELSE <<>>
    IN IF ~fs[path].is_file THEN None
       ELSE IF gitignore_is_ignore(gitignore, path) THEN None
       ELSE IF priority < 0 THEN None
       ELSE IF ~is_text_file(path, binary_extensions, fs[path]) THEN None
       ELSE Some([path |-> path,
                  priority |-> final_prio(priority, commit_times, path, two_weeks_ago)])

\* lines 621-649 and 229-241: the entry reaches is_text_file and
\* is_text_file reaches File::open
opens(path) ==
    LET cfg == Unwrap(final_config)
        binary_extensions ==
            IF IsSome(config) THEN Unwrap(config).binary_extensions ELSE <<>>
    IN /\ fs[path].is_file
       /\ ~gitignore_is_ignore(gitignore, path)
       /\ get_file_priority(path, cfg.ignore_patterns, cfg.priority_list) >= 0
       /\ ~binary_by_extension(path, binary_extensions)

\* lines 615-672: one entry of the walk
Collect ==
    /\ pc = "collect"
    /\ entry_idx <= Len(walk)
    /\ LET c == candidate(walk[entry_idx])
       IN files' = IF IsSome(c) THEN Append(files, Unwrap(c)) ELSE files
    /\ opened' = IF opens(walk[entry_idx]) THEN opened \cup {walk[entry_idx]} ELSE opened
    /\ entry_idx' = entry_idx + 1
    /\ UNCHANGED <<inputs, pc, base_path, final_config, commit_times, two_weeks_ago,
                   output_dir, file_idx, current_chunk, current_chunk_size, chunk_index,
                   split_rel, remaining, part, result, sink>>

\* line 675
SortFiles ==
    /\ pc = "collect"
    /\ entry_idx > Len(walk)
    /\ files' = sort_files(files)
    /\ pc' = "assemble"
    /\ UNCHANGED <<inputs, base_path, final_config, commit_times, two_weeks_ago,
                   output_dir, entry_idx, file_idx, current_chunk, current_chunk_size,
                   chunk_index, split_rel, remaining, part, result, sink, opened>>

\* the next call of write_chunk returns Err: File::create, write_all or
\* flush fails (lines 363-373)
write_fails == IsSome(fail_at) /\ Len(written) = Unwrap(fail_at)

\* lines 682-759: one file of the assembly loop
ProcessFile ==
    /\ pc = "assemble"
    /\ file_idx <= Len(files)
    /\ LET rel_str == files[file_idx].path
           read == read_to_string(fs[rel_str])
       IN IF read = None
          THEN /\ file_idx' = file_idx + 1
               /\ UNCHANGED <<pc, current_chunk, current_chunk_size, chunk_index,
                              split_rel, remaining, part, result, sink>>
          ELSE LET content == Unwrap(read)
                   size == count_size(content, count_tokens)
               IN IF is_oversized(size, max_size)
                  THEN /\ pc' = "split"
                       /\ split_rel' = rel_str
                       /\ remaining' = content
                       /\ part' = 0
                       /\ UNCHANGED <<file_idx, current_chunk, current_chunk_size,
                                      chunk_index, result, sink>>
                  ELSE LET flush == needs_flush(current_chunk_size, size, max_size,
                                                current_chunk)
                           w == IF flush
                                THEN write_chunk(current_chunk, chunk_index, "chunk")
                                ELSE sink
                       IN IF flush /\ write_fails
                          THEN /\ pc' = "done"
                               /\ result' = <<"Err", "write_chunk">>
                               /\ UNCHANGED <<file_idx, current_chunk, current_chunk_size,
                                              chunk_index, split_rel, remaining, part,
                                              sink>>
                          ELSE /\ stdout' = w[1]
                               /\ dir' = w[2]
                               /\ written' = w[3]
                               /\ chunk_index' =
                                     IF flush THEN chunk_index + 1 ELSE chunk_index
                               /\ current_chunk' =
                                     next_chunk(current_chunk, flush, <<rel_str, content>>)
                               /\ current_chunk_size' =
                                     IF flush THEN size ELSE current_chunk_size + size
                               /\ file_idx' = file_idx + 1
                               /\ UNCHANGED <<pc, split_rel, remaining, part, result>>
    /\ UNCHANGED <<inputs, base_path, final_config, commit_times, two_weeks_ago,
                   output_dir, entry_idx, files, opened>>

\* lines 698-733: one iteration of the split loop of an oversized file
SplitPart ==
    /\ pc = "split"
    /\ remaining # <<>>
    /\ part < MaxParts
    /\ LET chunk_size == split_chunk_size(remaining, max_size, count_tokens)
           mid == Min(chunk_size, Len(remaining))
       IN IF ~is_char_boundary(remaining, mid)
          THEN /\ pc' = "panic"
               /\ UNCHANGED <<remaining, part, result, sink>>
          ELSE IF write_fails
          THEN /\ pc' = "done"
               /\ result' = <<"Err", "write_chunk">>
               /\ UNCHANGED <<remaining, part, sink>>
          ELSE LET cut == split_at(remaining, mid)
                   w == write_chunk(<< <<part_label(split_rel, part), cut[1]>> >>,
                                    part, "part")
               IN /\ remaining' = trim_start(cut[2])
                  /\ stdout' = w[1]
                  /\ dir' = w[2]
                  /\ written' = w[3]
                  /\ part' = part + 1
                  /\ pc' = pc
                  /\ UNCHANGED result
    /\ UNCHANGED <<inputs, base_path, final_config, commit_times, two_weeks_ago,
                   output_dir, entry_idx, files, file_idx, current_chunk,
                   current_chunk_size, chunk_index, split_rel, opened>>

\* variant: assembly goes on with the next candidate after the parts
SplitReturnContinue ==
    /\ pc = "split"
    /\ remaining = <<>>
    /\ pc' = "assemble"
    /\ file_idx' = file_idx + 1
    /\ UNCHANGED <<inputs, base_path, final_config, commit_times, two_weeks_ago,
                   output_dir, entry_idx, files, current_chunk, current_chunk_size,
                   chunk_index, split_rel, remaining, part, result, sink, opened>>

\* line 735: return Ok(None) after the parts of an oversized file
SplitReturn ==
    /\ pc = "split"
    /\ remaining = <<>>
    /\ pc' = "done"
    /\ result' = <<"Ok", None>>
    /\ UNCHANGED <<inputs, base_path, final_config, commit_times, two_weeks_ago,
                   output_dir, entry_idx, files, file_idx, current_chunk,
                   current_chunk_size, chunk_index, split_rel, remaining, part, sink,
                   opened>>

\* lines 762-773: flush the trailing chunk and return Ok(output_dir)
FinalFlush ==
    /\ pc = "assemble"
    /\ file_idx > Len(files)
    /\ IF current_chunk # <<>> /\ write_fails
       THEN /\ result' = <<"Err", "write_chunk">>
            /\ UNCHANGED sink
       ELSE LET w == IF current_chunk # <<>>
                     THEN write_chunk(current_chunk, chunk_index, "chunk")
                     ELSE sink
            IN /\ stdout' = w[1]
               /\ dir' = w[2]
               /\ written' = w[3]
               /\ result' = <<"Ok", output_dir>>
    /\ pc' = "done"
    /\ UNCHANGED <<inputs, base_path, final_config, commit_times, two_weeks_ago,
                   output_dir, entry_idx, files, file_idx, current_chunk,
                   current_chunk_size, chunk_index, split_rel, remaining, part, opened>>

Next ==
    \/ Start
    \/ Collect
    \/ SortFiles
    \/ ProcessFile
    \/ SplitPart
    \/ SplitReturn
    \/ FinalFlush

Spec == Init /\ [][Next]_vars

\* ------------------------------------------------------------------
\* Runs of main(), unvalidated configurations, and I/O errors
\* ------------------------------------------------------------------
\* priority rules of a yek.toml: a rule on the default score, rules on new
\* scores, two rules on one new score, a pattern that is no regular
\* expression, a rule without patterns, a score above 1000
RulePool ==
    { Rule(50, <<Suffix(".txt")>>), Rule(10, <<MatchAll>>),
      Rule(90, <<Prefix("docs/")>>), Rule(90, <<InvalidRe, Suffix(".md")>>),
      Rule(70, <<>>), Rule(1001, <<Suffix(".md")>>) }

RuleLists == UNION {[1..n -> RulePool] : n \in 0..MaxRules}

IgnoreLists ==
    { <<>>, <<Prefix("docs/")>>, <<InvalidRe, Suffix(".md")>>,
      <<Prefix("docs/"), InvalidRe, Prefix("node_modules/"), Prefix("docs/")>> }

\* configurations as parsed, before any validation
RawConfigs ==
    {UserConfig(<<>>, rules, <<>>, None) : rules \in RuleLists}
       \cup {UserConfig(ign, <<Rule(10, <<MatchAll>>)>>, exts, out) :
                ign \in IgnoreLists, exts \in {<<>>, <<".md">>},
                out \in {None, Some(<<"out-cfg">>), Some(<<"occupied">>)}}

\* a path that is a regular file, and one that cannot be created
EnvDirs == (<<"occupied">> :> "file") @@ (<<"locked">> :> "denied")

\* main(): the configuration comes from load_config_file
MainRuns ==
    {[Run(MaxSize, FALSE, <<FALSE, None>>, None, None, <<NowLate, None>>, w, PlainTree)
         EXCEPT !.entry = "load", !.config_file = file, !.dir_state = EnvDirs] :
        w \in Walks, file \in {None} \cup {Some(c) : c \in RawConfigs}}

\* serialize_repo called with a configuration nobody validated
LibraryRuns ==
    {[Run(MaxSize, FALSE, <<FALSE, None>>, Some(c), None, <<NowLate, None>>, w, PlainTree)
         EXCEPT !.dir_state = EnvDirs] :
        w \in Walks, c \in RawConfigs}

FaultTrees ==
    {(PathSrcDir :> Directory) @@ (PathLog :> TextFile(<<"a">>))
        @@ (PathImg :> TextFile(<<"a">>))
        @@ (PathSrcB :> hb) @@ (PathA :> ha) @@ (PathDocs :> hd) :
        hb \in {TextFile(<<"a">>), TextFile(<<"a", " ", "b">>)},
        ha \in {TextFile(<<"a">>), TextFile(<<"a", " ", "b">>)},
        hd \in {TextFile(<<"a", " ", "b">>), TextFile(<<"FF">>)}}

\* the derived directory of a tree outside a repository cannot be created
TempDenied(tree) ==
    (temp_dir_join(get_repo_checksum(0, None, tree, NowLate)) :> "denied") @@ EnvDirs

\* runs in which the root path does not canonicalize, an output directory
\* cannot be created, or a call of write_chunk fails
FaultRuns ==
    {[Run(max, FALSE, mode, None, None, <<NowLate, None>>,
          <<PathSrcDir, PathSrcB, PathA, PathDocs, PathLog, PathImg>>, tree)
         EXCEPT !.canonical_ok = ok, !.fail_at = fail,
                !.dir_state = IF denied THEN TempDenied(tree) ELSE EnvDirs] :
        max \in {1, 2}, tree \in FaultTrees, ok \in BOOLEAN, denied \in BOOLEAN,
        fail \in {None, Some(0), Some(1), Some(2)},
        mode \in OutputModes \cup {<<FALSE, Some(<<"locked">>)>>,
                                   <<FALSE, Some(<<"occupied">>)>>}}

\* n bytes "a"
RECURSIVE Fill(_)
Fill(n) ==
    IF n = 0 THEN <<>>
    ELSE IF n % 2 = 0 THEN LET half == Fill(n \div 2) IN half \o half
    ELSE Append(Fill(n - 1), "a")

\* a file of n bytes whose k-th byte is zero (no zero byte when k > n)
ZeroAt(n, k) ==
    TextFile(IF k > n THEN Fill(n) ELSE Fill(k - 1) \o <<"NUL">> \o Fill(n - k))

\* trees for is_text_file: zero bytes before, at and behind the end of the
\* buffer, files that cannot be opened, extensions in upper case
ProbeTrees ==
    {[PlainTree EXCEPT ![PathA] = ha, ![PathDocs] = hd, ![PathImg] = hi] :
        ha \in {ZeroAt(TextProbeBytes + 1, TextProbeBytes + 1),
                 ZeroAt(TextProbeBytes + 1, TextProbeBytes),
                 ZeroAt(TextProbeBytes, TextProbeBytes + 1), ZeroAt(2, 1)},
        hd \in {TextFile(<<"a">>), TextFile(<<"a", "NUL">>), Unreadable},
        hi \in {TextFile(<<"a">>), TextFile(<<"NUL">>), Unreadable}}

\* the caller's extensions: with the dot, without it, in upper case
ProbeExtensions == { <<>>, <<".md">>, <<"md">>, <<".MD">>, <<".txt", ".md">> }

ProbeMaxSize == 3 * TextProbeBytes

ProbeRuns ==
    {Run(ProbeMaxSize, FALSE, <<TRUE, None>>,
         IF exts = <<>> THEN None ELSE Some(UserConfig(<<>>, <<>>, exts, None)),
         None, <<NowLate, None>>, w, tree) :
        exts \in ProbeExtensions, w \in Walks, tree \in ProbeTrees}

EnvRuns == MainRuns \cup LibraryRuns \cup FaultRuns \cup ProbeRuns

InitEnv == \E r \in EnvRuns : InitRun(r)

NextEnv ==
    \/ LoadConfigFile
    \/ Start
    \/ Collect
    \/ SortFiles
    \/ ProcessFile
    \/ SplitPart
    \/ SplitReturn
    \/ FinalFlush

SpecEnv == InitEnv /\ [][NextEnv]_vars

\* ------------------------------------------------------------------
\* Properties
\* ------------------------------------------------------------------
Sorted == pc \in {"assemble", "split", "done", "panic"}

\* the content read_to_string gives for a path
ContentOf(path) == Unwrap(read_to_string(fs[path]))

Readable(path) == IsSome(read_to_string(fs[path]))

\* the sum of the sizes of the contents of a chunk's files
SumSizes(chunk_files) ==
    LET F[i \in 0..Len(chunk_files)] ==
            IF i = 0 THEN 0 ELSE F[i - 1] + count_size(chunk_files[i][2], count_tokens)
    IN F[Len(chunk_files)]

\* position of a path in the walk
WalkPos(path) == CHOOSE i \in 1..Len(walk) : walk[i] = path

\* the files assembly reads with success, in assembly order
ReadableFiles == SelectSeq(files, LAMBDA e : Readable(e.path))

NoOversizedFile ==
    \A i \in 1..Len(ReadableFiles) :
       count_size(ContentOf(ReadableFiles[i].path), count_tokens) <= max_size

\* everything the run emitted: standard output, or the chunk files
\* concatenated in index order
Emitted ==
    IF stream THEN stdout
    ELSE LET n == Cardinality(DOMAIN dir)
             F[i \in 0..n] == IF i = 0 THEN <<>> ELSE F[i - 1] \o dir[i - 1]
         IN F[n]

\* marker line, content verbatim, blank-line separator: one per readable
\* file, in assembly order
ExpectedRecords ==
    LET F[i \in 0..Len(ReadableFiles)] ==
            IF i = 0 THEN <<>>
            ELSE F[i - 1] \o <<">>>> ">> \o ReadableFiles[i].path \o <<"\n">>
                          \o ContentOf(ReadableFiles[i].path) \o <<"\n", "\n">>
    IN F[Len(ReadableFiles)]

\* C1: every chunk flushed by the normal path has an accumulated size, the
\* sum of count_size of its files' contents, of at most max_size
C1_NormalChunkWithinMax ==
    \A i \in 1..Len(written) :
       written[i].kind = "chunk" => SumSizes(written[i].files) <= max_size

\* a chunk of several files was flushed because the next file did not fit,
\* and a later chunk holds exactly max_size
C1_Witness ==
    /\ Len(written) >= 2
    /\ written[1].kind = "chunk" /\ Len(written[1].files) >= 2
    /\ written[2].kind = "chunk"
    /\ \E i \in 1..Len(written) : SumSizes(written[i].files) = max_size

\* C2: in a finished run without an oversized file the emitted chunks,
\* concatenated in index order, are exactly one record (marker line, content,
\* blank line) per readable candidate, in assembly order
C2_RoundTrip ==
    (pc = "done" /\ NoOversizedFile /\ Sorted) => Emitted = ExpectedRecords

\* a finished run in directory mode with two chunk files and a candidate
\* that could not be read
C2_Witness ==
    /\ pc = "done" /\ NoOversizedFile /\ ~stream
    /\ Cardinality(DOMAIN dir) >= 2
    /\ Len(ReadableFiles) >= 2
    /\ Len(ReadableFiles) < Len(files)

\* C3: the candidates handed to assembly are in ascending order of final
\* priority, and candidates of equal priority are in discovery order
C3_SortedStable ==
    Sorted =>
       \A i, j \in 1..Len(files) :
          i < j =>
             \/ files[i].priority < files[j].priority
             \/ /\ files[i].priority = files[j].priority
                /\ WalkPos(files[i].path) < WalkPos(files[j].path)

\* three candidates, two of them tied, and a candidate discovered first
\* that is assembled last
C3_Witness ==
    /\ Sorted
    /\ Len(files) >= 3
    /\ \E i, j \in 1..Len(files) : i < j /\ files[i].priority = files[j].priority
    /\ \E i, j \in 1..Len(files) :
          i < j /\ files[i].priority < files[j].priority
                /\ WalkPos(files[i].path) > WalkPos(files[j].path)

\* the resolved rule set, once Start has built it
Rules == Unwrap(final_config)

Ignored(path) ==
    \E i \in 1..Len(Rules.ignore_patterns) : is_match(Rules.ignore_patterns[i], path)

TierMatches(tier, path) ==
    \E j \in 1..Len(tier.patterns) : is_match(tier.patterns[j], path)

MatchingScores(path) ==
    {Rules.priority_list[i].score : i \in {k \in 1..Len(Rules.priority_list) :
                                              TierMatches(Rules.priority_list[k], path)}}

RuleBased(path) == get_file_priority(path, Rules.ignore_patterns, Rules.priority_list)

\* paths the rules are asked about: the tree, and two paths outside it
ProbePaths == AllPaths \cup {<<"lib/", "src/", "x", ".rs">>, <<"README", ".md">>}

\* the rule set is resolved and no entry of the walk has been looked at
RulesResolved == pc = "collect" /\ entry_idx = 1

\* the relative path a record of the sink is about: its display path, less
\* the ":part<n>" suffix of a part
RecordPath(call, k) ==
    LET label == call.files[k][1]
    IN IF call.kind = "part" THEN SubSeq(label, 1, Len(label) - 2) ELSE label

InIndex(path) == IsSome(commit_times) /\ path \in DOMAIN Unwrap(commit_times)

\* C4: a path matched by an ignore matcher of the resolved rule set has
\* priority -1 whatever tiers match it, is no candidate, and is in no chunk
\* or part, whatever its commit recency
C4_IgnoredNeverEmitted ==
    /\ RulesResolved => \A p \in ProbePaths : Ignored(p) => RuleBased(p) = -1
    /\ \A i \in 1..Len(files) : ~Ignored(files[i].path)
    /\ \A i \in 1..Len(written) :
          \A k \in 1..Len(written[i].files) : ~Ignored(RecordPath(written[i], k))

\* a finished run that wrote chunks, with a file of the tree that an ignore
\* matcher and a priority tier both match and that was committed recently
C4_Witness ==
    /\ pc = "done" /\ written # <<>>
    /\ \E p \in AllPaths :
          /\ fs[p].is_file /\ Ignored(p) /\ MatchingScores(p) # {}
          /\ InIndex(p) /\ Unwrap(commit_times)[p] >= two_weeks_ago

\* C5: a path no ignore matcher matches gets the score of the highest-scored
\* tier with a matching pattern, 40 when no tier matches; without a user
\* configuration that is 50 under src/ and 40 elsewhere
C5_HighestMatchingTier ==
    RulesResolved =>
       \A p \in ProbePaths :
          ~Ignored(p) =>
             /\ RuleBased(p) =
                   IF MatchingScores(p) = {} THEN 40
                   ELSE CHOOSE m \in MatchingScores(p) : \A x \in MatchingScores(p) : x <= m
             /\ config = None => RuleBased(p) = IF p[1] = "src/" THEN 50 ELSE 40

\* the rules are resolved from a user configuration, and tiers of two
\* different scores match a file of the tree that no ignore matcher matches
C5_Witness ==
    /\ RulesResolved /\ config # None
    /\ \E p \in AllPaths :
          fs[p].is_file /\ ~Ignored(p) /\ Cardinality(MatchingScores(p)) >= 2

\* the sorted candidates, before assembly reads the first of them
JustSorted == pc = "assemble" /\ file_idx = 1

\* C6: the final priority of a candidate is its rule-based priority, plus 50
\* exactly when the commit-time index exists, holds the path, and the time is
\* at or after now - 14 days; no candidate has rule-based priority -1
C6_RecencyBonus ==
    (pc = "collect" \/ JustSorted) =>
       \A i \in 1..Len(files) :
          LET p == files[i].path
              recent == /\ InIndex(p)
                        /\ Unwrap(commit_times)[p] >= now - 14 * 24 * 60 * 60
          IN /\ RuleBased(p) >= 0
             /\ files[i].priority = RuleBased(p) + (IF recent THEN 50 ELSE 0)
             /\ git_log = None => files[i].priority = RuleBased(p)

\* candidates committed exactly at the cutoff, one second before it, and
\* not named by the log
C6_Witness ==
    /\ JustSorted
    /\ \E i \in 1..Len(files) :
          /\ InIndex(files[i].path)
          /\ Unwrap(commit_times)[files[i].path] = now - 14 * 24 * 60 * 60
          /\ files[i].priority = RuleBased(files[i].path) + 50
    /\ \E i \in 1..Len(files) :
          /\ InIndex(files[i].path)
          /\ Unwrap(commit_times)[files[i].path] = now - 14 * 24 * 60 * 60 - 1
    /\ \E i \in 1..Len(files) : ~InIndex(files[i].path)

Ended == pc \in {"split", "done", "panic"}

\* C7: once a file is oversized, assembly never moves to another candidate:
\* the run stays in the split loop or ends, and every chunk written from
\* then on is a part of that file
C7_OversizedEndsRun ==
    [][pc = "split" =>
          /\ Ended'
          /\ file_idx' = file_idx
          /\ split_rel' = files[file_idx].path
          /\ current_chunk' = current_chunk
          /\ \A i \in (Len(written) + 1)..Len(written') :
                /\ written'[i].kind = "part"
                /\ Len(written'[i].files) = 1
                /\ SubSeq(written'[i].files[1][1], 1, Len(split_rel)) = split_rel]_vars

\* the run returned after the parts of an oversized file while a candidate
\* of higher priority was still waiting
C7_Witness ==
    /\ pc = "done" /\ split_rel # <<>> /\ result = <<"Ok", None>>
    /\ file_idx < Len(files)
    /\ files[Len(files)].priority > files[file_idx].priority
    /\ Len(written) >= 2
    /\ written[Len(written)].kind = "part"

\* the parts written for the oversized file, in the order written
Parts == SelectSeq(written, LAMBDA call : call.kind = "part")

\* the run met an oversized file, emitted its parts and returned
SplitOver == pc = "done" /\ split_rel # <<>>

\* the words of all parts, in part order
PartWords ==
    LET F[i \in 0..Len(Parts)] ==
            IF i = 0 THEN <<>> ELSE F[i - 1] \o split_whitespace(Parts[i].files[1][2])
    IN F[Len(Parts)]

\* C8: in byte mode a file of S bytes with S > max_size >= 1 is emitted as
\* exactly ceil(S / max_size) parts, labelled :part0, :part1, ... in order,
\* of at most max_size bytes each
C8_ByteModePartCount ==
    (SplitOver /\ ~count_tokens /\ max_size >= 1) =>
       LET S == Len(ContentOf(split_rel))
       IN /\ Len(Parts) = (S + max_size - 1) \div max_size
          /\ \A i \in 1..Len(Parts) :
                /\ Parts[i].files[1][1] = part_label(split_rel, i - 1)
                /\ Len(Parts[i].files[1][2]) <= max_size

\* C9: in token mode with max_size >= 1 every part holds at most max_size
\* tokens and no word of the file is divided between two parts
C9_TokenModeWholeWords ==
    (count_tokens /\ max_size >= 1) =>
       /\ \A i \in 1..Len(Parts) :
             Len(split_whitespace(Parts[i].files[1][2])) <= max_size
       /\ SplitOver => PartWords = split_whitespace(ContentOf(split_rel))

\* C10: every iteration of the split loop leaves less content than it found,
\* for every max_size, 0 included
C10_SplitLoopProgress ==
    [][(pc = "split" /\ pc' = "split") => Len(remaining') < Len(remaining)]_vars

\* C11: in directory mode no two chunks handed to the sink during one run,
\* normal chunks and parts alike, are written under the same chunk index, so
\* no chunk file written earlier in the run is overwritten later
C11_ChunkFilesWriteOnce ==
    ~stream =>
       \A i, j \in 1..Len(written) : i < j => written[i].index # written[j].index

\* the binary extensions of the run's configuration
UserBinaryExtensions ==
    IF IsSome(config) THEN Unwrap(config).binary_extensions ELSE <<>>

\* C19: a regular file the matcher built from the root .gitignore reports as
\* ignored is no candidate and is in no chunk or part, whatever tier matches
\* it and whatever its commit recency; without a .gitignore every text file
\* that no ignore pattern matches is a candidate
C19_GitignoredNeverEmitted ==
    /\ \A i \in 1..Len(files) : ~gitignore_is_ignore(gitignore, files[i].path)
    /\ \A i \in 1..Len(written) :
          \A k \in 1..Len(written[i].files) :
             ~gitignore_is_ignore(gitignore, RecordPath(written[i], k))
    /\ (gitignore = None /\ JustSorted) =>
          \A p \in AllPaths :
             (fs[p].is_file /\ ~Ignored(p) /\ is_text_file(p, UserBinaryExtensions, fs[p]))
                => \E i \in 1..Len(files) : files[i].path = p

\* a finished run that wrote chunks, over a tree with a text file that the
\* .gitignore matcher reports, that no ignore pattern matches, that a
\* priority tier matches and that was committed recently
C19_Witness ==
    /\ pc = "done" /\ written # <<>> /\ gitignore # None
    /\ \E p \in AllPaths :
          /\ fs[p].is_file /\ gitignore_is_ignore(gitignore, p)
          /\ ~Ignored(p) /\ MatchingScores(p) # {}
          /\ is_text_file(p, UserBinaryExtensions, fs[p])
          /\ InIndex(p) /\ Unwrap(commit_times)[p] >= two_weeks_ago

\* the number of normal-chunk records the sink received for a path
Deliveries(path) ==
    Cardinality({<<i, k>> \in (1..Len(written)) \X (1..Len(files)) :
                    /\ written[i].kind = "chunk"
                    /\ k <= Len(written[i].files)
                    /\ written[i].files[k][1] = path})

\* C20: when the run ends after the parts of an oversized file, every
\* readable file that precedes it in assembly order was delivered to the
\* sink exactly once
C20_FilesBeforeOversizedDelivered ==
    SplitOver =>
       \A i \in 1..(file_idx - 1) :
          Readable(files[i].path) => Deliveries(files[i].path) = 1

\* a regular file that cannot be opened or read, or whose bytes are no UTF-8
Fails(path) ==
    fs[path].is_file /\ (fs[path].io # "ok" \/ ~is_utf8(fs[path].bytes))

\* the candidates of the run over the same tree without its failing files,
\* in assembly order
CandidatesWithoutFailing ==
    LET w == SelectSeq(walk, LAMBDA p : ~Fails(p))
        F[i \in 0..Len(w)] ==
            IF i = 0 THEN <<>>
            ELSE IF IsSome(candidate(w[i])) THEN Append(F[i - 1], Unwrap(candidate(w[i])))
            ELSE F[i - 1]
    IN sort_files(F[Len(w)])

\* the chunks the assembly loop and the final flush hand to the sink for a
\* list of readable candidates none of which is oversized
ChunksOf(entries) ==
    LET A[i \in 0..Len(entries)] ==
            IF i = 0 THEN [out |-> <<>>, cur |-> <<>>, size |-> 0]
            ELSE LET prev == A[i - 1]
                     content == fs[entries[i].path].bytes
                     size == count_size(content, count_tokens)
                     flush == needs_flush(prev.size, size, max_size, prev.cur)
                 IN [out |-> IF flush THEN Append(prev.out, prev.cur) ELSE prev.out,
                     cur |-> next_chunk(prev.cur, flush, <<entries[i].path, content>>),
                     size |-> IF flush THEN size ELSE prev.size + size]
        last == A[Len(entries)]
    IN IF last.cur # <<>> THEN Append(last.out, last.cur) ELSE last.out

\* C16: a file that cannot be opened or read, or that is no UTF-8 text, is
\* skipped and the run returns Ok; in a finished run without an oversized file
\* the chunks handed to the sink, with their indexes, are those of the run
\* over the same tree without the failing files
C16_FailingFileOnlySkipped ==
    (pc = "done" /\ NoOversizedFile) =>
       /\ result = <<"Ok", output_dir>>
       /\ Len(written) = Len(ChunksOf(CandidatesWithoutFailing))
       /\ \A i \in 1..Len(written) :
             /\ written[i].files = ChunksOf(CandidatesWithoutFailing)[i]
             /\ written[i].index = i - 1

\* a finished run of two chunks without an oversized file, one of whose
\* candidates is not UTF-8 and was skipped by the assembly loop
C16_Witness ==
    /\ pc = "done" /\ NoOversizedFile /\ Len(written) >= 2
    /\ \E i \in 1..Len(files) : Fails(files[i].path)

\* the output directory was derived: no streaming, no directory argument,
\* no directory in the configuration
DerivedDir ==
    /\ RulesResolved /\ IsSome(output_dir)
    /\ Len(Unwrap(output_dir)) >= 2
    /\ Unwrap(output_dir)[1] = "tmp/" /\ Unwrap(output_dir)[2] = "yek-"

\* the part of the derived name after "yek-"
VariablePart == SubSeq(Unwrap(output_dir), 3, Len(Unwrap(output_dir)))

\* clock readings of later runs against the same tree
Clocks == {now, now + 1, now + 86400}

\* C18: the derived output directory is the same for every run against the
\* same unchanged tree, whatever the clock, and its variable part is 8
\* hexadecimal characters
C18_DerivedDirDeterministic ==
    DerivedDir =>
       /\ Len(VariablePart) = 8
       /\ \A i \in 1..Len(VariablePart) :
             \E d \in 1..16 : HexDigits[d] = VariablePart[i]
       /\ \A t \in Clocks :
             temp_dir_join(get_repo_checksum(0, git_log, fs, t)) = Unwrap(output_dir)

\* C18, amended: when git ls-files succeeds, the derived output directory is
\* the same for every run against the same unchanged tree, whatever the
\* clock, and its variable part is 8 hexadecimal characters; when git fails
\* the name is the clock in hexadecimal milliseconds
C18_DerivedDirDeterministicInGit ==
    DerivedDir =>
       IF git_ls_files(git_log) # None
       THEN /\ Len(VariablePart) = 8
            /\ \A i \in 1..Len(VariablePart) :
                  \E d \in 1..16 : HexDigits[d] = VariablePart[i]
            /\ \A t \in Clocks :
                  temp_dir_join(get_repo_checksum(0, git_log, fs, t)) = Unwrap(output_dir)
       ELSE VariablePart = to_hex(now * 1000)

\* the directory was derived in a repository with tracked files
C18_Witness ==
    /\ DerivedDir
    /\ git_ls_files(git_log) # None
    /\ Len(Unwrap(git_ls_files(git_log))) >= 2

\* the priority rules and the ignore patterns of the run's configuration
UserRules == IF IsSome(config) THEN Unwrap(config).priority_rules ELSE <<>>

UserIgnores == IF IsSome(config) THEN Unwrap(config).ignore_patterns ELSE <<>>

Tiers == Rules.priority_list

\* the valid patterns of the user rules of one score, in rule order
UserPatternsOf(score) ==
    LET F[i \in 0..Len(UserRules)] ==
            IF i = 0 THEN <<>>
            ELSE IF UserRules[i].score = score
                 THEN F[i - 1] \o SelectSeq(UserRules[i].patterns, IsValidRegex)
                 ELSE F[i - 1]
    IN F[Len(UserRules)]

\* the tier list is in strictly descending order of score, and every tier
\* holds the default patterns of its score followed by the user's
TiersWellFormed ==
    /\ \A i, j \in 1..Len(Tiers) : i < j => Tiers[i].score > Tiers[j].score
    /\ \A i \in 1..Len(Tiers) :
          Tiers[i].patterns =
             (IF Tiers[i].score = 50 THEN <<Prefix("src/")>> ELSE <<>>)
                \o UserPatternsOf(Tiers[i].score)

\* C12: the resolved tier list is sorted by score, descending, without two
\* tiers of one score; a user rule on the score of an existing tier extends
\* that tier, and every other user rule adds one tier, so the scores of the
\* tiers are 50 and the scores of the user rules
C12_TiersMergedByScore ==
    RulesResolved =>
       /\ TiersWellFormed
       /\ {Tiers[i].score : i \in 1..Len(Tiers)} =
             {50} \cup {UserRules[i].score : i \in 1..Len(UserRules)}

\* C12, amended: as C12, but a user rule with an empty pattern list is
\* skipped and adds no tier: the scores of the tiers are 50 and the scores
\* of the user rules that have patterns
C12_TiersMergedByScoreAmended ==
    RulesResolved =>
       /\ TiersWellFormed
       /\ {Tiers[i].score : i \in 1..Len(Tiers)} =
             {50} \cup {UserRules[i].score :
                          i \in {k \in 1..Len(UserRules) : UserRules[k].patterns # <<>>}}

\* rules were merged into the default tier and into a tier that an earlier
\* rule created, and a rule without patterns was skipped
C12_Witness ==
    /\ RulesResolved /\ Len(Tiers) >= 2
    /\ \E i \in 1..Len(UserRules) : UserRules[i].patterns = <<>>
    /\ \E i, j \in 1..Len(UserRules) :
          /\ i < j /\ UserRules[i].score = UserRules[j].score
          /\ UserRules[i].patterns # <<>> /\ UserRules[j].patterns # <<>>
    /\ \E i \in 1..Len(Tiers) : Tiers[i].score # 50 /\ Len(Tiers[i].patterns) >= 2

\* C14: the resolved ignore list is the default list followed by the valid
\* user patterns in their order, duplicates kept; whatever a default pattern
\* matches stays ignored
C14_IgnoresAppended ==
    RulesResolved =>
       LET valid == SelectSeq(UserIgnores, IsValidRegex)
           n == Len(default_ignore_patterns)
       IN /\ Len(Rules.ignore_patterns) = n + Len(valid)
          /\ \A i \in 1..n : Rules.ignore_patterns[i] = default_ignore_patterns[i]
          /\ \A i \in 1..Len(valid) : Rules.ignore_patterns[n + i] = valid[i]
          /\ \A p \in ProbePaths :
                (\E i \in 1..n : is_match(default_ignore_patterns[i], p))
                   => RuleBased(p) = -1

\* the user's list holds a pattern twice, a pattern of the defaults and a
\* pattern that is no regular expression
C14_Witness ==
    /\ RulesResolved
    /\ \E i, j \in 1..Len(UserIgnores) : i < j /\ UserIgnores[i] = UserIgnores[j]
    /\ \E i \in 1..Len(UserIgnores) : ~IsValidRegex(UserIgnores[i])
    /\ \E i \in 1..Len(UserIgnores) :
          \E k \in 1..Len(default_ignore_patterns) :
             UserIgnores[i] = default_ignore_patterns[k]
    /\ \E p \in AllPaths : fs[p].is_file /\ Ignored(p)
                           /\ \E i \in 1..Len(default_ignore_patterns) :
                                 is_match(default_ignore_patterns[i], p)

\* main() loaded a yek.toml in which validate_config finds an error
LoadedInvalid ==
    /\ IsSome(config_file) /\ pc # "load"
    /\ validate_config(Unwrap(config_file)) # <<>>

\* the paths of the candidates
CandidatePaths == {files[i].path : i \in 1..Len(files)}

\* C13: a yek.toml for which validate_config reports an error is discarded
\* as a whole: load_config_file returns None, the rule set is the default
\* one, the output directory is not the file's, the file's binary extensions
\* and ignore patterns exclude nothing, and the run returns Ok
C13_InvalidConfigDiscarded ==
    LoadedInvalid =>
       /\ config = None
       /\ pc # "start" =>
             /\ Rules = [ignore_patterns |-> default_ignore_patterns,
                         priority_list |-> default_priority_list]
             /\ output_dir # Unwrap(config_file).output_dir
       /\ JustSorted => CandidatePaths = {PathA, PathSrcB, PathDocs}
       /\ pc = "done" => result = <<"Ok", output_dir>>

\* a finished run whose yek.toml held an invalid pattern next to a valid
\* ignore pattern, a binary extension and an output directory
C13_Witness ==
    /\ LoadedInvalid /\ pc = "done" /\ written # <<>>
    /\ \E i \in 1..Len(Unwrap(config_file).ignore_patterns) :
          IsValidRegex(Unwrap(config_file).ignore_patterns[i])
    /\ \E i \in 1..Len(Unwrap(config_file).ignore_patterns) :
          ~IsValidRegex(Unwrap(config_file).ignore_patterns[i])
    /\ Unwrap(config_file).binary_extensions # <<>>
    /\ IsSome(Unwrap(config_file).output_dir)

\* serialize_repo is past its set-up
Started == pc \notin {"load", "start"}

\* the directory the run selected for its chunks: None when streaming
ChosenDir == resolve_output_dir(stream, output_dir, config)

EndedInError == pc = "done" /\ result[1] = "Err"

\* C15: when the root path cannot be canonicalized or the output directory
\* cannot be created the run ends with an error before it writes a chunk;
\* when a call of write_chunk fails the run ends with an error and no chunk
\* is written after the failing call
C15_FatalConditionsEndRun ==
    Started =>
       /\ ~canonical_ok => (EndedInError /\ written = <<>>)
       /\ (IsSome(ChosenDir) /\ ~create_dir_all(Unwrap(ChosenDir)))
             => (EndedInError /\ written = <<>>)
       /\ IsSome(fail_at) => Len(written) <= Unwrap(fail_at)
       /\ result = <<"Err", "write_chunk">> =>
             (pc = "done" /\ Len(written) = Unwrap(fail_at))

\* the entries of the walk that Collect has handled and that reached
\* is_text_file: regular files that neither the .gitignore matcher nor an
\* ignore pattern rejects
Classified ==
    {walk[i] : i \in {k \in 1..(entry_idx - 1) :
                         /\ fs[walk[k]].is_file
                         /\ ~gitignore_is_ignore(gitignore, walk[k])
                         /\ ~Ignored(walk[k])}}

\* the extension of a file of the tree, lowercased, with its dot
LowerExt(path) == to_lowercase(path[Len(path)])

\* the extension is in the built-in set or among the caller's extensions
ExtensionListed(path) ==
    \/ LowerExt(path) \in BINARY_FILE_EXTENSIONS
    \/ LowerExt(path) \in {UserBinaryExtensions[i] : i \in 1..Len(UserBinaryExtensions)}

\* a zero byte among the first 4096 bytes
ZeroInPrefix(path) ==
    \E i \in 1..Len(fs[path].bytes) : i <= 4096 /\ fs[path].bytes[i] = "NUL"

\* C17: a file whose lowercased extension is in the built-in set or in the
\* caller's set is binary and is never opened; any other file is opened,
\* and when it can be read it is binary exactly when one of its first 4096
\* bytes is zero, so that a zero byte behind them leaves it text
C17_BinaryDetection ==
    pc = "collect" =>
       \A p \in Classified :
          IF ExtensionListed(p)
          THEN p \notin opened /\ p \notin CandidatePaths
          ELSE /\ p \in opened
               /\ fs[p].io = "ok" => (p \notin CandidatePaths <=> ZeroInPrefix(p))
               /\ fs[p].io # "ok" => p \notin CandidatePaths

\* the walk is over: a file with its only zero byte behind the first 4096
\* is a candidate, a file with a zero byte was opened and rejected, a file
\* with a listed extension in upper case that cannot be opened was not tried,
\* and the caller's extension kept a text file from being opened
C17_Witness ==
    /\ pc = "collect" /\ entry_idx > Len(walk)
    /\ PathA \in CandidatePaths
    /\ Len(fs[PathA].bytes) > 4096 /\ fs[PathA].bytes[Len(fs[PathA].bytes)] = "NUL"
    /\ PathImg \in Classified /\ PathImg \notin opened /\ fs[PathImg].io # "ok"
    /\ PathDocs \in Classified /\ PathDocs \notin opened
    /\ UserBinaryExtensions # <<>>
    /\ PathSrcB \in opened

\* the normal chunks handed to the sink, in the order written
NormalChunks == SelectSeq(written, LAMBDA call : call.kind = "chunk")

\* the size of the file the assembly loop is about to handle, when it can
\* be read and is not oversized
NormalFileDue ==
    /\ pc = "assemble" /\ file_idx <= Len(files)
    /\ Readable(files[file_idx].path)
    /\ count_size(ContentOf(files[file_idx].path), count_tokens) <= max_size

\* C21: the assembler flushes before a normal file exactly when the current
\* chunk holds a file and the file would take the accumulated size over
\* max_size; no flushed chunk is empty; the size of a normal chunk plus the
\* size of the first file of the next one exceeds max_size; normal chunks
\* have the indexes 0, 1, 2, ... in the order written
C21_GreedyPacking ==
    [][/\ NormalFileDue =>
             LET size == count_size(ContentOf(files[file_idx].path), count_tokens)
             IN (written' # written) <=>
                   (current_chunk # <<>> /\ SumSizes(current_chunk) + size > max_size)
       /\ LET chunks == SelectSeq(written', LAMBDA call : call.kind = "chunk")
          IN /\ \A k \in 1..Len(chunks) :
                   /\ chunks[k].files # <<>>
                   /\ chunks[k].index = k - 1
             /\ \A k \in 1..(Len(chunks) - 1) :
                   SumSizes(chunks[k].files)
                      + count_size(chunks[k + 1].files[1][2], count_tokens) > max_size
      ]_vars

\* a finished run of two normal chunks whose first chunk took a second file
\* that filled it exactly
C21_Witness ==
    /\ pc = "done" /\ split_rel = <<>> /\ max_size >= 2
    /\ Len(NormalChunks) >= 2
    /\ Len(NormalChunks[1].files) >= 2
    /\ SumSizes(NormalChunks[1].files) = max_size
    /\ count_size(NormalChunks[1].files[2][2], count_tokens) >= 1

\* the contents of the parts, concatenated in part order
PartsConcatenated ==
    LET F[i \in 0..Len(Parts)] ==
            IF i = 0 THEN <<>> ELSE F[i - 1] \o Parts[i].files[1][2]
    IN F[Len(Parts)]

\* C22: for max_size >= 1, in byte mode and in token mode, the contents of
\* the parts of an oversized file, concatenated in part order, are the
\* content of the file, whitespace at part boundaries included
C22_SplitLosesNothing ==
    (SplitOver /\ max_size >= 1) => PartsConcatenated = ContentOf(split_rel)

====
